---------------------------- MODULE Spec2Model ----------------------------
(***************************************************************************)
(* A model of the pattern matcher of go-multiaddr-fmt (package mafmt,      *)
(* patterns.go): the constructors Base, And and Or, the two matching       *)
(* operations Matches and partialMatch of each Pattern implementation, and *)
(* the package-level patterns built from them.                             *)
(*                                                                         *)
(* A multiaddr is modelled by what Protocols() returns: a sequence of      *)
(* Protocol records, of which the code reads only the field Code.          *)
(* A Go slice that is nil and one that is empty are both <<>>: the code    *)
(* only ever takes len() of a returned remainder.                          *)
(***************************************************************************)
EXTENDS Integers, Sequences, FiniteSets, TLC

VARIABLES
    held,       \* Spec, SpecLib: the patterns the caller holds, newest last
    last,       \* the most recent call and what it returned
    nodes,      \* SpecAlias: the *pattern structs, by address
    arrays,     \* SpecAlias: the backing arrays of the []Pattern slices
    callerOwns  \* SpecAlias: the backing arrays the caller can still write

vars == <<held, last, nodes, arrays, callerOwns>>

---------------------------------------------------------------------------
(* Bounds of the model.                                                    *)

\* The most pattern nodes (Base values and *pattern structs) the caller of
\* Spec holds at once.
MaxNodes == 5

\* The longest protocol sequence passed to Matches / partialMatch.
MaxLen == 3

---------------------------------------------------------------------------
(* Program constants.                                                      *)

\* const ( or = iota; and = iota )
or == 0
and == 1

\* Protocol codes of go-multiaddr used by the package-level patterns.
P_IP4 == 4
P_TCP == 6
P_IP6 == 41
P_DNS4 == 54
P_DNS6 == 55
P_DNSADDR == 56
P_UDP == 273
P_UTP == 302
P_GARLIC64 == 446
P_GARLIC32 == 447
P_QUIC == 460
P_HTTP == 480

---------------------------------------------------------------------------
(* Values.                                                                 *)

\* ma.Protocol, of which only Code is read.
Protocol(c) == [Code |-> c]

\* type Base int
Base(c) == [kind |-> "Base", code |-> c]

\* func And(ps ...Pattern) Pattern: a *pattern with Op and, Args ps.
And(ps) == [kind |-> "pattern", Op |-> and, Args |-> ps]

\* func Or(ps ...Pattern) Pattern: a *pattern with Op or, Args ps.
Or(ps) == [kind |-> "pattern", Op |-> or, Args |-> ps]

\* What a call returns: (ok, rem), or a run-time panic.  Matches returns
\* only a bool: its rem is <<>>.
Ret(ok, rem) == [ok |-> ok, rem |-> rem, panic |-> FALSE]
Panic == [ok |-> FALSE, rem |-> <<>>, panic |-> TRUE]

\* pcs[1:]
Rest(pcs) == SubSeq(pcs, 2, Len(pcs))

---------------------------------------------------------------------------
(* The matching operations.                                                *)

\* Base.partialMatch that returns pcs where the code returns pcs[1:].
Base_partialMatch_KeepsFirst(p, pcs) ==
    IF Len(pcs) = 0 THEN Ret(FALSE, <<>>)
    ELSE IF pcs[1].Code = p.code THEN Ret(TRUE, pcs)
    ELSE Ret(FALSE, <<>>)

\* func (p Base) partialMatch(pcs []ma.Protocol) (bool, []ma.Protocol)
Base_partialMatch(p, pcs) ==
    IF Len(pcs) = 0 THEN Ret(FALSE, <<>>)
    ELSE IF pcs[1].Code = p.code THEN Ret(TRUE, Rest(pcs))
    ELSE Ret(FALSE, <<>>)

\* func (p Base) Matches(a ma.Multiaddr) bool: pcs[0] is read before the
\* length is looked at, so an empty pcs is an index-out-of-range panic.
Base_Matches(p, pcs) ==
    IF Len(pcs) = 0 THEN Panic
    ELSE Ret(pcs[1].Code = p.code /\ Len(pcs) = 1, <<>>)

RECURSIVE partialMatch(_, _)
RECURSIVE orLoop(_, _, _)
RECURSIVE andLoop(_, _, _)

\* The or loop with the return inside it lost: the last child that succeeds
\* decides.
RECURSIVE orLoop_LastWins(_, _, _)
orLoop_LastWins(Args, i, pcs) ==
    IF i > Len(Args) THEN Ret(FALSE, <<>>)
    ELSE LET r == partialMatch(Args[i], pcs)
             later == orLoop_LastWins(Args, i + 1, pcs)
         IN  IF r.panic \/ later.panic THEN Panic
             ELSE IF later.ok THEN later
             ELSE IF r.ok THEN Ret(TRUE, r.rem)
             ELSE Ret(FALSE, <<>>)

\* case or: the first child that succeeds decides.
orLoop(Args, i, pcs) ==
    IF i > Len(Args) THEN Ret(FALSE, <<>>)
    ELSE LET r == partialMatch(Args[i], pcs)
         IN  IF r.panic THEN Panic
             ELSE IF r.ok THEN Ret(TRUE, r.rem)
             ELSE orLoop(Args, i + 1, pcs)

\* The and loop with "pcs = rem" lost: every child is fed the whole input.
RECURSIVE andLoop_NoAdvance(_, _, _)
andLoop_NoAdvance(Args, i, pcs) ==
    IF i > Len(Args) THEN Ret(TRUE, pcs)
    ELSE LET r == partialMatch(Args[i], pcs)
         IN  IF r.panic THEN Panic
             ELSE IF ~r.ok THEN Ret(FALSE, <<>>)
             ELSE andLoop_NoAdvance(Args, i + 1, pcs)

\* case and, the loop: each child is fed what the one before left.
andLoop(Args, i, pcs) ==
    IF i > Len(Args) THEN Ret(TRUE, pcs)
    ELSE LET r == partialMatch(Args[i], pcs)
         IN  IF r.panic THEN Panic
             ELSE IF ~r.ok THEN Ret(FALSE, <<>>)
             ELSE andLoop(Args, i + 1, r.rem)

\* The check before the loop with <= for <.
andPreCheck_OffByOne(ptrn, pcs) == Len(pcs) <= Len(ptrn.Args)

\* case and, the check before the loop.
andPreCheck(ptrn, pcs) == Len(pcs) < Len(ptrn.Args)

\* func (ptrn *pattern) partialMatch(pcs []ma.Protocol) (bool, []ma.Protocol)
pattern_partialMatch(ptrn, pcs) ==
    IF ptrn.Op = or THEN orLoop(ptrn.Args, 1, pcs)
    ELSE IF ptrn.Op = and THEN
        IF andPreCheck(ptrn, pcs) THEN Ret(FALSE, <<>>)
        ELSE andLoop(ptrn.Args, 1, pcs)
    ELSE Panic

\* Pattern.partialMatch, dispatched on the dynamic type.
partialMatch(p, pcs) ==
    IF p.kind = "Base" THEN Base_partialMatch(p, pcs)
    ELSE pattern_partialMatch(p, pcs)

\* pattern.Matches that returns ok without looking at the remainder.
pattern_Matches_IgnoresRem(ptrn, pcs) ==
    LET r == pattern_partialMatch(ptrn, pcs)
    IN  IF r.panic THEN Panic ELSE Ret(r.ok, <<>>)

\* func (ptrn *pattern) Matches(a ma.Multiaddr) bool
pattern_Matches(ptrn, pcs) ==
    LET r == pattern_partialMatch(ptrn, pcs)
    IN  IF r.panic THEN Panic ELSE Ret(r.ok /\ Len(r.rem) = 0, <<>>)

\* Pattern.Matches, dispatched on the dynamic type.
Matches(p, pcs) ==
    IF p.kind = "Base" THEN Base_Matches(p, pcs)
    ELSE pattern_Matches(p, pcs)

---------------------------------------------------------------------------
(* Spec: a caller that evaluates a pattern expression bottom-up with the   *)
(* three constructors, from argument lists written out at the call         *)
(* (And(a, b): a fresh slice nobody else holds), and then calls Matches or *)
(* partialMatch on the pattern it built.                                   *)

\* The protocol codes the caller of Spec uses.
Codes == {P_IP4, P_TCP}

RECURSIVE SeqsOf(_, _)
SeqsOf(S, n) ==
    IF n = 0 THEN {<<>>}
    ELSE LET shorter == SeqsOf(S, n - 1)
         IN  shorter \cup {Append(s, x) : s \in {t \in shorter : Len(t) = n - 1}, x \in S}

\* The protocol sequences passed to the matching operations.
Inputs == SeqsOf({Protocol(c) : c \in Codes}, MaxLen)

RECURSIVE Size(_)
RECURSIVE SizeAll(_, _)
SizeAll(ps, i) == IF i > Len(ps) THEN 0 ELSE Size(ps[i]) + SizeAll(ps, i + 1)
Size(p) == IF p.kind = "Base" THEN 1 ELSE 1 + SizeAll(p.Args, 1)

NoCall == [op |-> "none"]

Call(op, recv, pcs, r) ==
    [op |-> op, recv |-> recv, pcs |-> pcs, ok |-> r.ok, rem |-> r.rem, panic |-> r.panic]

Init ==
    /\ held = <<>>
    /\ last = NoCall
    /\ nodes = <<>>
    /\ arrays = <<>>
    /\ callerOwns = {}

\* p := Base(c)
NewBase ==
    \E c \in Codes :
        /\ SizeAll(held, 1) < MaxNodes
        /\ held' = Append(held, Base(c))
        /\ last' = NoCall
        /\ UNCHANGED <<nodes, arrays, callerOwns>>

\* p := And(the k newest patterns held...), which the caller then lets go of.
NewAnd ==
    \E k \in 0..Len(held) :
        /\ SizeAll(held, 1) < MaxNodes
        /\ held' = Append(SubSeq(held, 1, Len(held) - k),
                          And(SubSeq(held, Len(held) - k + 1, Len(held))))
        /\ last' = NoCall
        /\ UNCHANGED <<nodes, arrays, callerOwns>>

\* p := Or(the k newest patterns held...), which the caller then lets go of.
NewOr ==
    \E k \in 0..Len(held) :
        /\ SizeAll(held, 1) < MaxNodes
        /\ held' = Append(SubSeq(held, 1, Len(held) - k),
                          Or(SubSeq(held, Len(held) - k + 1, Len(held))))
        /\ last' = NoCall
        /\ UNCHANGED <<nodes, arrays, callerOwns>>

\* p.Matches(a), once the expression for p is complete; the caller then
\* starts on the next expression.
CallMatches ==
    \E pcs \in Inputs :
        /\ Len(held) = 1
        /\ last' = Call("Matches", held[1], pcs, Matches(held[1], pcs))
        /\ held' = <<>>
        /\ UNCHANGED <<nodes, arrays, callerOwns>>

\* p.partialMatch(pcs), once the expression for p is complete.
CallPartialMatch ==
    \E pcs \in Inputs :
        /\ Len(held) = 1
        /\ last' = Call("partialMatch", held[1], pcs, partialMatch(held[1], pcs))
        /\ held' = <<>>
        /\ UNCHANGED <<nodes, arrays, callerOwns>>

Next == NewBase \/ NewAnd \/ NewOr \/ CallMatches \/ CallPartialMatch

Spec == Init /\ [][Next]_vars

---------------------------------------------------------------------------
(* The package-level patterns that Reliable is built from.                 *)

\* var DNS4 = Base(madns.P_DNS4)
DNS4 == Base(P_DNS4)

\* var DNS6 = Base(madns.P_DNS6)
DNS6 == Base(P_DNS6)

\* var DNS = Or(Base(madns.P_DNSADDR), DNS4, DNS6)
DNS == Or(<<Base(P_DNSADDR), DNS4, DNS6>>)

\* var IP = Or(Base(ma.P_IP4), Base(ma.P_IP6))
IP == Or(<<Base(P_IP4), Base(P_IP6)>>)

\* var TCP = Or(And(DNS, Base(ma.P_TCP)), And(IP, Base(ma.P_TCP)))
TCP == Or(<<And(<<DNS, Base(P_TCP)>>), And(<<IP, Base(P_TCP)>>)>>)

\* var UDP = Or(And(DNS, Base(ma.P_UDP)), And(IP, Base(ma.P_UDP)))
UDP == Or(<<And(<<DNS, Base(P_UDP)>>), And(<<IP, Base(P_UDP)>>)>>)

\* var UTP = And(UDP, Base(ma.P_UTP))
UTP == And(<<UDP, Base(P_UTP)>>)

\* var QUIC = And(UDP, Base(ma.P_QUIC))
QUIC == And(<<UDP, Base(P_QUIC)>>)

\* var GARLIC32 = Base(ma.P_GARLIC32)
GARLIC32 == Base(P_GARLIC32)

\* var GARLIC64 = Base(ma.P_GARLIC64)
GARLIC64 == Base(P_GARLIC64)

\* var GARLIC = Or(GARLIC64, GARLIC32)
GARLIC == Or(<<GARLIC64, GARLIC32>>)

\* var Unreliable = Or(UDP)
Unreliable == Or(<<UDP>>)

\* var Reliable = Or(TCP, UTP, QUIC, GARLIC)
Reliable == Or(<<TCP, UTP, QUIC, GARLIC>>)

---------------------------------------------------------------------------
(* SpecLib: a caller that takes one of the package-level patterns, may put *)
(* a Base on top of it with And, as the package does for IPFS and HTTP,    *)
(* and calls Matches.                                                      *)

LibVars == {DNS4, DNS6, DNS, IP, TCP, UDP, UTP, QUIC, GARLIC32, GARLIC64,
            GARLIC, Unreliable, Reliable}

\* The protocol codes of the addresses the caller of SpecLib asks about.
LibCodes == {P_IP4, P_TCP, P_UDP, P_HTTP}

LibInputs == SeqsOf({Protocol(c) : c \in LibCodes}, MaxLen)

\* p := mafmt.X
LibUse ==
    \E v \in LibVars :
        /\ held = <<>>
        /\ held' = <<v>>
        /\ last' = NoCall
        /\ UNCHANGED <<nodes, arrays, callerOwns>>

\* p := And(mafmt.X, Base(c))
LibAndBase ==
    \E c \in LibCodes :
        /\ Len(held) = 1
        /\ held[1] \in LibVars
        /\ held' = <<And(<<held[1], Base(c)>>)>>
        /\ last' = NoCall
        /\ UNCHANGED <<nodes, arrays, callerOwns>>

\* p.Matches(a)
LibMatches ==
    \E pcs \in LibInputs :
        /\ Len(held) = 1
        /\ last' = Call("Matches", held[1], pcs, Matches(held[1], pcs))
        /\ held' = <<>>
        /\ UNCHANGED <<nodes, arrays, callerOwns>>

NextLib == LibUse \/ LibAndBase \/ LibMatches

SpecLib == Init /\ [][NextLib]_vars

---------------------------------------------------------------------------
(* SpecAlias: a caller that passes a slice it keeps to And or Or           *)
(* (And(ps...)).  Args is then the caller's slice: the struct and the      *)
(* caller share one backing array, and what the caller writes to it later  *)
(* is what the pattern reads.  Structs and arrays live at addresses;       *)
(* a Pattern value is a Base or a pointer to a struct.                     *)

\* A *pattern: the value And and Or return.
Ptr(addr) == [kind |-> "pattern", addr |-> addr]

\* The protocol codes the caller of SpecAlias uses.
AliasCodes == {P_IP4}

\* The Pattern values the caller has at hand.
Values == {Base(c) : c \in AliasCodes} \cup {Ptr(n) : n \in DOMAIN nodes}

\* The protocol sequences the caller of SpecAlias asks about.
AliasInputs == SeqsOf({Protocol(c) : c \in AliasCodes}, MaxLen)

\* A call that recurses into itself with the arguments it was given: it
\* never returns (the goroutine's stack grows until the run time gives up).
NeverReturns == [ok |-> FALSE, rem |-> <<>>, panic |-> FALSE, returns |-> FALSE]

RECURSIVE partialMatchAt(_, _, _)
RECURSIVE orLoopAt(_, _, _, _)
RECURSIVE andLoopAt(_, _, _, _)

\* case or, on the Args as they are in the backing array now.
orLoopAt(Args, i, pcs, active) ==
    IF i > Len(Args) THEN Ret(FALSE, <<>>)
    ELSE LET r == partialMatchAt(Args[i], pcs, active)
         IN  IF r = NeverReturns THEN NeverReturns
             ELSE IF r.panic THEN Panic
             ELSE IF r.ok THEN Ret(TRUE, r.rem)
             ELSE orLoopAt(Args, i + 1, pcs, active)

\* case and, the loop, on the Args as they are in the backing array now.
andLoopAt(Args, i, pcs, active) ==
    IF i > Len(Args) THEN Ret(TRUE, pcs)
    ELSE LET r == partialMatchAt(Args[i], pcs, active)
         IN  IF r = NeverReturns THEN NeverReturns
             ELSE IF r.panic THEN Panic
             ELSE IF ~r.ok THEN Ret(FALSE, <<>>)
             ELSE andLoopAt(Args, i + 1, r.rem, active)

\* Pattern.partialMatch on a Base or on the struct at p.addr.  active holds
\* the calls (struct, pcs) this one is nested in: the code is deterministic
\* and reads nothing else, so a call nested in one with its own arguments
\* repeats it without end.
partialMatchAt(p, pcs, active) ==
    IF p.kind = "Base" THEN Base_partialMatch(p, pcs)
    ELSE IF <<p.addr, pcs>> \in active THEN NeverReturns
    ELSE LET ptrn == nodes[p.addr]
             Args == arrays[ptrn.Args]
             inner == active \cup {<<p.addr, pcs>>}
         IN  IF ptrn.Op = or THEN orLoopAt(Args, 1, pcs, inner)
             ELSE IF ptrn.Op = and THEN
                 IF Len(pcs) < Len(Args) THEN Ret(FALSE, <<>>)
                 ELSE andLoopAt(Args, 1, pcs, inner)
             ELSE Panic

\* func (ptrn *pattern) Matches(a ma.Multiaddr) bool, on the struct at addr.
MatchesAt(addr, pcs) ==
    LET r == partialMatchAt(Ptr(addr), pcs, {})
    IN  IF r = NeverReturns THEN NeverReturns
        ELSE IF r.panic THEN Panic
        ELSE Ret(r.ok /\ Len(r.rem) = 0, <<>>)

\* The most *pattern structs, slices, and elements of a slice.
MaxStructs == 2
MaxSlices == 2
MaxArgs == 2

\* ps := []Pattern{...}
AliasMakeSlice ==
    \E elems \in SeqsOf(Values, MaxArgs) :
        /\ Len(arrays) < MaxSlices
        /\ arrays' = Append(arrays, elems)
        /\ callerOwns' = callerOwns \cup {Len(arrays) + 1}
        /\ last' = NoCall
        /\ UNCHANGED <<held, nodes>>

\* p := And(ps...): Args is ps itself, not a copy.
AliasAnd ==
    \E a \in callerOwns :
        /\ Len(nodes) < MaxStructs
        /\ nodes' = Append(nodes, [Op |-> and, Args |-> a])
        /\ last' = NoCall
        /\ UNCHANGED <<held, arrays, callerOwns>>

\* p := Or(ps...): Args is ps itself, not a copy.
AliasOr ==
    \E a \in callerOwns :
        /\ Len(nodes) < MaxStructs
        /\ nodes' = Append(nodes, [Op |-> or, Args |-> a])
        /\ last' = NoCall
        /\ UNCHANGED <<held, arrays, callerOwns>>

\* ps[i] = v, on a slice the caller still holds.
AliasWrite ==
    \E a \in callerOwns :
        \E i \in DOMAIN arrays[a] :
            \E v \in Values :
                /\ v # arrays[a][i]
                /\ arrays' = [arrays EXCEPT ![a][i] = v]
                /\ last' = NoCall
                /\ UNCHANGED <<held, nodes, callerOwns>>

\* The caller lets go of ps (as after And(x, y), whose slice only the
\* struct holds).
AliasForget ==
    \E a \in callerOwns :
        /\ callerOwns' = callerOwns \ {a}
        /\ last' = NoCall
        /\ UNCHANGED <<held, nodes, arrays>>

\* p.Matches(a), for a struct p built before.
AliasMatches ==
    \E n \in DOMAIN nodes :
        \E pcs \in AliasInputs :
            LET r == MatchesAt(n, pcs)
            IN  /\ last' = [op |-> "Matches", recv |-> Ptr(n), pcs |-> pcs,
                            ok |-> r.ok, rem |-> r.rem, panic |-> r.panic,
                            returns |-> r # NeverReturns]
                /\ UNCHANGED <<held, nodes, arrays, callerOwns>>

NextAlias ==
    \/ AliasMakeSlice
    \/ AliasAnd
    \/ AliasOr
    \/ AliasWrite
    \/ AliasForget
    \/ AliasMatches

SpecAlias == Init /\ [][NextAlias]_vars

---------------------------------------------------------------------------
(* Vocabulary of the claims.                                               *)

IsOr(p) == p.kind = "pattern" /\ p.Op = or
IsAnd(p) == p.kind = "pattern" /\ p.Op = and

\* p fully matches pcs: p.partialMatch(pcs) succeeds with an empty remainder.
Full(p, pcs) ==
    LET r == partialMatch(p, pcs) IN ~r.panic /\ r.ok /\ r.rem = <<>>

\* The children of an Or or And whose partialMatch succeeds on pcs.
Succeeding(Args, pcs) == {i \in DOMAIN Args : partialMatch(Args[i], pcs).ok}

Min(S) == CHOOSE x \in S : \A y \in S : x <= y

\* pcs[k+1:], what is left of pcs after its first k segments.
Drop(pcs, k) == SubSeq(pcs, k + 1, Len(pcs))

\* pcs[:k]
Take(pcs, k) == SubSeq(pcs, 1, k)

\* pcs can be cut into runs, one for each of Args[i..], that each child
\* fully matches.
RECURSIVE SplitFull(_, _, _)
SplitFull(Args, i, pcs) ==
    IF i > Len(Args) THEN pcs = <<>>
    ELSE \E k \in 0..Len(pcs) :
            /\ Full(Args[i], Take(pcs, k))
            /\ SplitFull(Args, i + 1, Drop(pcs, k))

\* pcs can be cut into runs, one for each of Args[i..], such that each
\* child's partialMatch, given everything from the start of its run on,
\* succeeds and leaves exactly what follows its run.
RECURSIVE SplitPartial(_, _, _)
SplitPartial(Args, i, pcs) ==
    IF i > Len(Args) THEN pcs = <<>>
    ELSE \E k \in 0..Len(pcs) :
            /\ LET r == partialMatch(Args[i], pcs)
               IN  ~r.panic /\ r.ok /\ r.rem = Drop(pcs, k)
            /\ SplitPartial(Args, i + 1, Drop(pcs, k))

---------------------------------------------------------------------------
(* C1.                                                                     *)

\* C1 as stated: Or(P1,...,Pn).Matches(s) is true if and only if at least
\* one child Pi fully matches s.
C1_OrMatchesIffSomeChildFull ==
    (last.op = "Matches" /\ IsOr(last.recv)) =>
        /\ ~last.panic
        /\ last.ok <=> \E i \in DOMAIN last.recv.Args :
                            Full(last.recv.Args[i], last.pcs)

\* C1 as amended: Or(P1,...,Pn).Matches(s) is true if and only if some child's
\* partialMatch(s) succeeds and the lowest-index such child leaves an empty
\* remainder; so a match implies that a child fully matches s, but a child
\* that fully matches s does not imply a match.
C1_OrMatchesIffFirstSuccessFull ==
    (last.op = "Matches" /\ IsOr(last.recv)) =>
        LET Args == last.recv.Args
            S == Succeeding(Args, last.pcs)
        IN  /\ ~last.panic
            /\ last.ok <=> (S # {} /\ partialMatch(Args[Min(S)], last.pcs).rem = <<>>)
            /\ last.ok => \E i \in DOMAIN Args : Full(Args[i], last.pcs)

\* An Or whose first child matches only a proper prefix of s while a later
\* child fully matches s has been asked, and did not match.
C1_Witness ==
    /\ last.op = "Matches"
    /\ IsOr(last.recv)
    /\ Len(last.recv.Args) >= 2
    /\ LET r == partialMatch(last.recv.Args[1], last.pcs)
       IN  r.ok /\ Len(r.rem) > 0
    /\ \E i \in 2..Len(last.recv.Args) : Full(last.recv.Args[i], last.pcs)
    /\ ~last.ok

---------------------------------------------------------------------------
(* C2.                                                                     *)

\* C2 as stated: And(P1,...,Pn).Matches(s) is true if and only if s can be
\* split into n consecutive runs s1..sn such that each Pi fully matches si.
C2_AndMatchesIffSplitFull ==
    (last.op = "Matches" /\ IsAnd(last.recv)) =>
        /\ ~last.panic
        /\ last.ok <=> SplitFull(last.recv.Args, 1, last.pcs)

\* C2 as amended: And(P1,...,Pn).Matches(s) is true if and only if s has at
\* least n segments and can be split into n consecutive runs s1..sn such
\* that each Pi.partialMatch, given s from the start of si on, succeeds and
\* returns exactly what follows si.
C2_AndMatchesIffSplitPartial ==
    (last.op = "Matches" /\ IsAnd(last.recv)) =>
        /\ ~last.panic
        /\ last.ok <=> /\ Len(last.pcs) >= Len(last.recv.Args)
                       /\ SplitPartial(last.recv.Args, 1, last.pcs)

\* An And of two or more children has matched a sequence of two or more
\* segments, cut into the runs its children consumed.
C2_Witness ==
    /\ last.op = "Matches"
    /\ IsAnd(last.recv)
    /\ Len(last.recv.Args) >= 2
    /\ Len(last.pcs) >= 2
    /\ last.ok
    /\ SplitPartial(last.recv.Args, 1, last.pcs)

---------------------------------------------------------------------------
(* C3.                                                                     *)

\* C3: Base(c).Matches(s) is true if and only if s has exactly one segment
\* and its code is c; it returns false for the empty sequence and for every
\* sequence of two segments, and agrees with "Base(c).partialMatch(s)
\* succeeds with an empty remainder" on every s.
C3_BaseMatchesIffSingleSegment ==
    (last.op = "Matches" /\ last.recv.kind = "Base") =>
        /\ ~last.panic
        /\ last.ok <=> (Len(last.pcs) = 1 /\ last.pcs[1].Code = last.recv.code)
        /\ last.ok <=> Full(last.recv, last.pcs)

---------------------------------------------------------------------------
(* C4.                                                                     *)

\* C4: on every pattern built with Base, And and Or and on every protocol
\* sequence, the empty one included, Matches and partialMatch return a plain
\* boolean outcome: no call panics.
C4_NoCallPanics ==
    last.op \in {"Matches", "partialMatch"} => ~last.panic

---------------------------------------------------------------------------
(* C5.                                                                     *)

\* C5: every Matches call returns, for every pattern got from Base, And and
\* Or, And and Or called with a slice the caller still holds and may later
\* write to included.
C5_EveryMatchesCallReturns ==
    (last.op = "Matches" /\ "returns" \in DOMAIN last) => last.returns

---------------------------------------------------------------------------
(* C6.                                                                     *)

\* C6: And() matches the empty protocol sequence and no other; Or() matches
\* no sequence, and its partialMatch fails on every input.
C6_EmptyAndEmptyOr ==
    /\ (last.op = "Matches" /\ last.recv = And(<<>>)) =>
            (~last.panic /\ (last.ok <=> last.pcs = <<>>))
    /\ (last.op \in {"Matches", "partialMatch"} /\ last.recv = Or(<<>>)) =>
            (~last.panic /\ ~last.ok)

\* And() has been matched against the empty sequence, and matched it.
C6_Witness ==
    /\ last.op = "Matches"
    /\ last.recv = And(<<>>)
    /\ last.pcs = <<>>
    /\ last.ok

---------------------------------------------------------------------------
(* C7.                                                                     *)

Addr(codes) == [i \in DOMAIN codes |-> Protocol(codes[i])]

\* C7: [ip4, tcp] matches Reliable; [ip4, udp] does not; [ip4, tcp, http]
\* does not match Reliable alone but matches And(Reliable, Base(http)).
C7_ReliableScenario ==
    last.op = "Matches" =>
        /\ (last.recv = Reliable /\ last.pcs = Addr(<<P_IP4, P_TCP>>)) =>
                (~last.panic /\ last.ok)
        /\ (last.recv = Reliable /\ last.pcs = Addr(<<P_IP4, P_UDP>>)) =>
                (~last.panic /\ ~last.ok)
        /\ (last.recv = Reliable /\ last.pcs = Addr(<<P_IP4, P_TCP, P_HTTP>>)) =>
                (~last.panic /\ ~last.ok)
        /\ ( /\ last.recv = And(<<Reliable, Base(P_HTTP)>>)
             /\ last.pcs = Addr(<<P_IP4, P_TCP, P_HTTP>>) ) =>
                (~last.panic /\ last.ok)

\* And(Reliable, Base(http)) has been asked about [ip4, tcp, http], and
\* matched it.
C7_Witness ==
    /\ last.op = "Matches"
    /\ last.recv = And(<<Reliable, Base(P_HTTP)>>)
    /\ last.pcs = Addr(<<P_IP4, P_TCP, P_HTTP>>)
    /\ last.ok

---------------------------------------------------------------------------
(* C8.                                                                     *)

\* partialMatch with the length check of case and taken out: the walk over
\* the children alone decides.
RECURSIVE partialMatchWalkOnly(_, _)
RECURSIVE orWalkOnly(_, _, _)
RECURSIVE andWalkOnly(_, _, _)

orWalkOnly(Args, i, pcs) ==
    IF i > Len(Args) THEN Ret(FALSE, <<>>)
    ELSE LET r == partialMatchWalkOnly(Args[i], pcs)
         IN  IF r.ok THEN Ret(TRUE, r.rem) ELSE orWalkOnly(Args, i + 1, pcs)

andWalkOnly(Args, i, pcs) ==
    IF i > Len(Args) THEN Ret(TRUE, pcs)
    ELSE LET r == partialMatchWalkOnly(Args[i], pcs)
         IN  IF ~r.ok THEN Ret(FALSE, <<>>) ELSE andWalkOnly(Args, i + 1, r.rem)

partialMatchWalkOnly(p, pcs) ==
    IF p.kind = "Base" THEN Base_partialMatch(p, pcs)
    ELSE IF p.Op = or THEN orWalkOnly(p.Args, 1, pcs)
    ELSE andWalkOnly(p.Args, 1, pcs)

\* C8: partialMatch returns the same success flag and remainder as the same
\* algorithm without the length check of case and.
C8_LengthCheckIsOnlyAFastPath ==
    last.op = "partialMatch" =>
        LET r == partialMatchWalkOnly(last.recv, last.pcs)
        IN  ~last.panic /\ last.ok = r.ok /\ last.rem = r.rem

---------------------------------------------------------------------------
(* C9.                                                                     *)

\* C9: Or(P1,...,Pn).partialMatch(s) succeeds if and only if some
\* Pi.partialMatch(s) succeeds, and then returns the remainder of the
\* lowest-index Pi that succeeds.
C9_FirstMatchWins ==
    (last.op = "partialMatch" /\ IsOr(last.recv)) =>
        LET Args == last.recv.Args
            S == Succeeding(Args, last.pcs)
        IN  /\ ~last.panic
            /\ last.ok <=> S # {}
            /\ last.ok => last.rem = partialMatch(Args[Min(S)], last.pcs).rem

\* And(Or(P,Q),R) has been asked about a sequence on which a later child of
\* the Or succeeds with another remainder than the first, and on which
\* And(Or(Q,P),R) gives the other answer.
C9_Witness ==
    /\ last.op = "Matches"
    /\ IsAnd(last.recv)
    /\ Len(last.recv.Args) = 2
    /\ IsOr(last.recv.Args[1])
    /\ Len(last.recv.Args[1].Args) = 2
    /\ LET P == last.recv.Args[1].Args[1]
           Q == last.recv.Args[1].Args[2]
           R == last.recv.Args[2]
       IN  /\ partialMatch(P, last.pcs).ok
           /\ partialMatch(Q, last.pcs).ok
           /\ partialMatch(Or(<<P, Q>>), last.pcs).rem = partialMatch(P, last.pcs).rem
           /\ partialMatch(Or(<<P, Q>>), last.pcs).rem # partialMatch(Q, last.pcs).rem
           /\ last.ok # Matches(And(<<Or(<<Q, P>>), R>>), last.pcs).ok

---------------------------------------------------------------------------
(* C10.                                                                    *)

\* C10: And(And(P,Q),R), And(P,And(Q,R)) and And(P,Q,R) give the same
\* Matches(s) result, and And(P) and Or(P) give the same Matches(s) result as
\* a composite P itself.
C10_AndNestingIsTransparent ==
    last.op = "Matches" =>
        /\ ( /\ IsAnd(last.recv)
             /\ Len(last.recv.Args) = 2
             /\ IsAnd(last.recv.Args[1])
             /\ Len(last.recv.Args[1].Args) = 2 ) =>
                LET P == last.recv.Args[1].Args[1]
                    Q == last.recv.Args[1].Args[2]
                    R == last.recv.Args[2]
                IN  /\ last.ok = Matches(And(<<P, And(<<Q, R>>)>>), last.pcs).ok
                    /\ last.ok = Matches(And(<<P, Q, R>>), last.pcs).ok
        /\ ( /\ last.recv.kind = "pattern"
             /\ Len(last.recv.Args) = 1
             /\ last.recv.Args[1].kind = "pattern" ) =>
                last.ok = Matches(last.recv.Args[1], last.pcs).ok

=============================================================================
